---- MODULE Spec2Model ----
(***************************************************************************)
(* rslite: one-directional, table-by-table row synchronisation between a   *)
(* source and a target SQLite database (src/sync/sync.go).                 *)
(*                                                                         *)
(* A table is a map from primary-key value to the value of its payload     *)
(* column, NoRow marking an absent key.  Every table has the schema        *)
(* (id INTEGER PRIMARY KEY, v), the shape of the tables of the test file.  *)
(* The program moves payload values and never inspects them, so two        *)
(* distinct payloads are enough to tell a copied row from an untouched     *)
(* one.                                                                    *)
(* The target is held twice: dst is the committed content, tx the content  *)
(* seen inside the transaction opened by syncTable.                        *)
(*                                                                         *)
(* Every database call of syncTable may fail.  A failure that the driver   *)
(* reports through rows.Next() returning false (rows.Err() set) ends the   *)
(* for-loop exactly like the end of the result set, because sync.go never  *)
(* reads rows.Err().                                                       *)
(***************************************************************************)
EXTENDS Integers, Sequences, FiniteSets, TLC

VARIABLES src, dst, tx, openTx, cfg, catalog, tables, ti, pc, err,
          rows, sourceIDs, query, pragma, info,
          src0, dst0, pre, post, faults, listFault, result, attempted, first

vars == <<src, dst, tx, openTx, cfg, catalog, tables, ti, pc, err,
          rows, sourceIDs, query, pragma, info,
          src0, dst0, pre, post, faults, listFault, result, attempted, first>>

(* Variables that only the schema inspection of one table, the record of  *)
(* an earlier run and the snapshot of the source use.                     *)
aside == <<pragma, info, src0, first>>

(* ---------------------------- bounds ---------------------------------- *)
MaxKey == 2
MaxKeyMulti == 1
MaxCols == 3

Payloads == {"a", "b"}
NoRow == "absent"

Contents(maxKey) == [1..maxKey -> Payloads \cup {NoRow}]

KeysOf(tbl) == {k \in DOMAIN tbl : tbl[k] # NoRow}

(* ----------------------- configuration space -------------------------- *)
Filters == {"", "gt", "lt", "gte", "lte", "eq"}
Values == {"", "1", "2", "x"}
AllowLists == {<<>>, <<"t1">>, <<"zz">>}
AllowListsMulti == {<<>>, <<"t1">>, <<"t2">>, <<"t2", "zz">>, <<"t1", "t2">>}

Config == [Filter : Filters, Value : Values, NoDelete : BOOLEAN, Tables : AllowLists]
ConfigMulti == [Filter : {""}, Value : {""}, NoDelete : BOOLEAN, Tables : AllowListsMulti]

(* ----------------------- schema inspection ---------------------------- *)
Schema(tableName) == <<[name |-> "id", pk |-> 1], [name |-> "v", pk |-> 0]>>

RECURSIVE scanColumns(_, _, _)
scanColumns(meta, i, table) ==
    IF i > Len(meta) THEN table
    ELSE scanColumns(meta, i + 1,
            [table EXCEPT !.columns = Append(@, meta[i].name),
                          !.pkCol = IF meta[i].pk > 0 THEN meta[i].name ELSE @])

(* getTableInfo on the rows that PRAGMA table_info returns for the table. *)
tableInfo(tableName, columnRows) ==
    LET table == scanColumns(columnRows, 1,
                    [name |-> tableName, columns |-> <<>>, pkCol |-> ""])
    IN IF table.pkCol = "" THEN [table EXCEPT !.pkCol = "rowid"] ELSE table

getTableInfo(tableName) == tableInfo(tableName, Schema(tableName))

RECURSIVE getTables(_)
getTables(names) ==
    IF names = <<>> THEN <<>>
    ELSE <<getTableInfo(Head(names))>> \o getTables(Tail(names))

SeqRange(s) == {s[i] : i \in 1..Len(s)}

filteredTables_all(ts, allow) == ts

filteredTables_strict(ts, allow) ==
    IF SeqRange(allow) \subseteq {ts[i].name : i \in 1..Len(ts)}
    THEN SelectSeq(ts, LAMBDA t : t.name \in SeqRange(allow))
    ELSE <<>>

RECURSIVE filteredTables(_, _)
filteredTables(ts, allow) ==
    IF ts = <<>> THEN <<>>
    ELSE IF Head(ts).name \in SeqRange(allow)
         THEN <<Head(ts)>> \o filteredTables(Tail(ts), allow)
         ELSE filteredTables(Tail(ts), allow)

selectTables(ts, c) ==
    IF Len(c.Tables) > 0 THEN filteredTables(ts, c.Tables) ELSE ts

(* -------------------------- query builder ----------------------------- *)
filterOp(f) ==
    CASE f = "gt" -> ">"
      [] f = "lt" -> "<"
      [] f = "gte" -> ">="
      [] f = "lte" -> "<="
      [] OTHER -> ""

buildSelectQuery(table, c) ==
    [cols |-> <<table.pkCol>> \o table.columns,
     from |-> table.name,
     pkCol |-> table.pkCol,
     where |-> IF c.Filter # "" /\ c.Value # "" THEN filterOp(c.Filter) ELSE ""]

buildInsertQuery(table) ==
    [cols |-> <<table.pkCol>> \o table.columns,
     into |-> table.name,
     placeholders |-> Len(<<table.pkCol>> \o table.columns)]

queryArgs(c) == IF c.Value # "" THEN <<c.Value>> ELSE <<>>

(* --------------------- the engine's evaluation ------------------------ *)
(* Text bound to a comparison with an INTEGER column is converted to a    *)
(* number when it looks like one; otherwise it stays text, and every      *)
(* integer sorts before every text.                                       *)
NumText == <<"0", "1", "2", "3", "4">>
IsNumeric(s) == \E i \in 1..Len(NumText) : NumText[i] = s
ToInt(s) == (CHOOSE i \in 1..Len(NumText) : NumText[i] = s) - 1

Compare(op, k, text) ==
    IF IsNumeric(text)
    THEN CASE op = ">" -> k > ToInt(text)
           [] op = "<" -> k < ToInt(text)
           [] op = ">=" -> k >= ToInt(text)
           [] op = "<=" -> k <= ToInt(text)
    ELSE op \in {"<", "<="}

(* A statement binds as many arguments as it has placeholders; the driver *)
(* leaves surplus arguments unused.                                       *)
Matches(q, args, k) ==
    IF q.where = "" THEN TRUE ELSE Compare(q.where, k, args[1])

RECURSIVE SortedSeq(_)
SortedSeq(S) ==
    IF S = {} THEN <<>>
    ELSE LET m == CHOOSE x \in S : \A y \in S : x <= y
         IN <<m>> \o SortedSeq(S \ {m})

RowTuple(cols, pkCol, k, v) ==
    [i \in 1..Len(cols) |-> IF cols[i] = pkCol THEN k ELSE v]

RunSelect(db, q, args) ==
    LET ks == SortedSeq({k \in KeysOf(db[q.from]) : Matches(q, args, k)})
    IN [i \in 1..Len(ks) |-> RowTuple(q.cols, q.pkCol, ks[i], db[q.from][ks[i]])]

RunSelectIDs(db, table) == SortedSeq(KeysOf(db[table.name]))

(* INSERT OR REPLACE: a column named twice takes its first value.         *)
ColumnValue(cols, values, name) ==
    values[CHOOSE i \in 1..Len(cols) :
              cols[i] = name /\ \A j \in 1..(i - 1) : cols[j] # name]

ExecInsert(db, q, table, values) ==
    LET k == ColumnValue(q.cols, values, table.pkCol)
        v == ColumnValue(q.cols, values, "v")
    IN [db EXCEPT ![q.into][k] = v]

ExecDeleteNotIn(db, table, ids) ==
    [db EXCEPT ![table.name] =
        [k \in DOMAIN @ |-> IF k \in SeqRange(ids) THEN @[k] ELSE NoRow]]

(* ------------------------------ Init ---------------------------------- *)
NoQuery == [cols |-> <<>>, from |-> "", pkCol |-> "", where |-> "", args |-> <<>>]
NoTable == [name |-> "", columns |-> <<>>, pkCol |-> ""]

InitCommon ==
    /\ tx = dst
    /\ openTx = {}
    /\ query = NoQuery
    /\ pragma = <<>>
    /\ info = NoTable
    /\ src0 = src
    /\ listFault = FALSE
    /\ first = [done |-> FALSE, err |-> "none", clean |-> TRUE, dst |-> dst]
    /\ tables = <<>>
    /\ ti = 1
    /\ pc = "start"
    /\ err = "none"
    /\ rows = <<>>
    /\ sourceIDs = <<>>
    /\ dst0 = dst
    /\ pre = dst
    /\ post = dst
    /\ faults = [t \in DOMAIN dst |-> {}]
    /\ result = [t \in DOMAIN dst |-> "none"]
    /\ attempted = {}

Init ==
    /\ catalog = <<"t1">>
    /\ src \in [{"t1"} -> Contents(MaxKey)]
    /\ dst \in [{"t1"} -> Contents(MaxKey)]
    /\ cfg \in Config
    /\ InitCommon

InitMulti ==
    /\ catalog = <<"t1", "t2">>
    /\ src \in [{"t1", "t2"} -> Contents(MaxKeyMulti)]
    /\ dst \in [{"t1", "t2"} -> Contents(MaxKeyMulti)]
    /\ cfg \in ConfigMulti
    /\ InitCommon

(* The target holds a table, t9, that the source does not have.           *)
AllowListsTarget == {<<>>, <<"t9">>, <<"t1", "t9">>}

ConfigTarget == [Filter : {""}, Value : {""}, NoDelete : BOOLEAN, Tables : AllowListsTarget]

InitTarget ==
    /\ catalog = <<"t1">>
    /\ src \in [{"t1"} -> Contents(MaxKeyMulti)]
    /\ dst \in [{"t1", "t9"} -> Contents(MaxKeyMulti)]
    /\ cfg \in ConfigTarget
    /\ InitCommon

(* ------------------------- control helpers ---------------------------- *)
cur == tables[ti]

(* A transaction of dst.Begin() that is neither committed nor rolled back. *)
txOpen == openTx # {}

closeTx_leak(open, t) == open

(* tx.Commit() and the deferred tx.Rollback() end the table's transaction. *)
closeTx(open, t) == open \ {t}

loopAfter_continue(e, i) == [pc |-> "loop", ti |-> i + 1, err |-> "none"]

(* Sync, lines 59-63: an error of syncTable ends the run at once.          *)
loopAfter(e, i) ==
    IF e = "error" THEN [pc |-> "done", ti |-> i, err |-> "error"]
    ELSE [pc |-> "loop", ti |-> i + 1, err |-> "none"]

Rollback_run(committed, atStart) == atStart

(* tx.Rollback(): the working copy is dropped, what was committed stays.   *)
Rollback(committed, atStart) == committed

(* tx.Commit(): the working copy becomes the committed content.            *)
Commit(committed, working) == working

ShouldDelete_always(c) == TRUE

ShouldDelete(c) == ~c.NoDelete

(* An error return of syncTable after Begin: the deferred tx.Rollback()    *)
(* runs and Sync receives the error.                                       *)
Fail(kind) ==
    LET nxt == loopAfter("error", ti) IN
    /\ faults' = [faults EXCEPT ![cur.name] = @ \cup {kind}]
    /\ result' = [result EXCEPT ![cur.name] = "error"]
    /\ dst' = Rollback(dst, dst0)
    /\ tx' = dst'
    /\ openTx' = closeTx(openTx, cur.name)
    /\ rows' = <<>>
    /\ sourceIDs' = <<>>
    /\ pc' = nxt.pc
    /\ ti' = nxt.ti
    /\ err' = nxt.err
    /\ UNCHANGED <<aside, query, listFault, src, cfg, catalog, tables, dst0, pre, post, attempted>>

Step(next) ==
    /\ pc' = next
    /\ UNCHANGED <<aside, query, listFault, src, dst, tx, openTx, cfg, catalog, tables, ti, err,
                   rows, sourceIDs, dst0, pre, post, faults, result, attempted>>

(* src.Query(selectQuery, cfg.Value) when cfg.Value is set, else          *)
(* src.Query(selectQuery), lines 153-159.                                 *)
selectCall(table, c) ==
    LET q == buildSelectQuery(table, c)
    IN [cols |-> q.cols, from |-> q.from, pkCol |-> q.pkCol, where |-> q.where,
        args |-> queryArgs(c)]

handles_swapped == [read |-> "tx", write |-> "src"]

(* The selects run on src (lines 156-158, 185); the insert is prepared on *)
(* tx and the batched delete is executed on tx, the transaction of dst    *)
(* (lines 140, 206).                                                      *)
handles == [read |-> "src", write |-> "tx"]

readDb == IF handles.read = "src" THEN src ELSE tx

hasSourceIDs_always(ids) == TRUE

(* if len(sourceIDs) > 0, line 200 *)
hasSourceIDs(ids) == Len(ids) > 0

TableNames == <<"t1", "t2", "t9">>

(* The tables that exist in the target, as sqlite_master would list them. *)
targetCatalog == SelectSeq(TableNames, LAMBDA n : n \in DOMAIN dst)

listTables_target(srcNames, dstNames) == getTables(dstNames)

(* tables, err := getTables(src), line 38: the source catalog is listed.  *)
listTables(srcNames, dstNames) == getTables(srcNames)

(* ------------------------------ Sync ---------------------------------- *)
Sync_getTables ==
    /\ pc = "start"
    /\ \E ok \in BOOLEAN :
        IF ok
        THEN /\ tables' = selectTables(listTables(catalog, targetCatalog), cfg)
             /\ pc' = "loop"
             /\ err' = err
        ELSE /\ tables' = tables
             /\ pc' = "done"
             /\ err' = "error"
    /\ listFault' = ~(pc' = "loop")
    /\ UNCHANGED <<aside, query, src, dst, tx, openTx, cfg, catalog, ti, rows, sourceIDs,
                   dst0, pre, post, faults, result, attempted>>

Sync_return ==
    /\ pc = "loop"
    /\ ti > Len(tables)
    /\ pc' = "done"
    /\ err' = "nil"
    /\ UNCHANGED <<aside, query, listFault, src, dst, tx, openTx, cfg, catalog, tables, ti, rows,
                   sourceIDs, dst0, pre, post, faults, result, attempted>>

(* ---------------------------- syncTable ------------------------------- *)
syncTable_Begin ==
    /\ pc = "loop"
    /\ ti <= Len(tables)
    /\ attempted' = attempted \cup {cur.name}
    /\ pre' = [pre EXCEPT ![cur.name] = dst[cur.name]]
    /\ \E ok \in BOOLEAN :
        IF ok
        THEN /\ openTx' = openTx \cup {cur.name}
             /\ tx' = dst
             /\ pc' = "prepareInsert"
             /\ UNCHANGED <<ti, err, faults, result>>
        ELSE LET nxt == loopAfter("error", ti) IN
             /\ faults' = [faults EXCEPT ![cur.name] = @ \cup {"begin"}]
             /\ result' = [result EXCEPT ![cur.name] = "error"]
             /\ pc' = nxt.pc
             /\ ti' = nxt.ti
             /\ err' = nxt.err
             /\ UNCHANGED <<tx, openTx>>
    /\ UNCHANGED <<aside, query, listFault, src, dst, cfg, catalog, tables, rows, sourceIDs, dst0, post>>

syncTable_PrepareInsert ==
    /\ pc = "prepareInsert"
    /\ \E ok \in BOOLEAN : IF ok THEN Step("prepareDelete") ELSE Fail("prepare")

syncTable_PrepareDelete ==
    /\ pc = "prepareDelete"
    /\ \E ok \in BOOLEAN : IF ok THEN Step("select") ELSE Fail("prepare")

syncTable_Select ==
    /\ pc = "select"
    /\ \E ok \in BOOLEAN :
        IF ok
        THEN /\ query' = selectCall(cur, cfg)
             /\ rows' = RunSelect(readDb, query', query'.args)
             /\ pc' = "copy"
             /\ UNCHANGED <<aside, listFault, src, dst, tx, openTx, cfg, catalog, tables, ti, err,
                            sourceIDs, dst0, pre, post, faults, result, attempted>>
        ELSE Fail("select")

afterCopy == IF ShouldDelete(cfg) THEN "queryIDs" ELSE "commit"

(* for rows.Next() { rows.Scan; insert.Exec }, lines 172-179 *)
syncTable_CopyRow ==
    /\ pc = "copy"
    /\ rows # <<>>
    /\ \E outcome \in {"ok", "scan", "exec"} :
        IF outcome = "ok"
        THEN /\ tx' = IF handles.write = "tx"
                       THEN ExecInsert(tx, buildInsertQuery(cur), cur, Head(rows))
                       ELSE tx
             /\ src' = IF handles.write = "tx"
                        THEN src
                        ELSE ExecInsert(src, buildInsertQuery(cur), cur, Head(rows))
             /\ rows' = Tail(rows)
             /\ UNCHANGED <<aside, query, listFault, dst, openTx, cfg, catalog, tables, ti, pc, err,
                            sourceIDs, dst0, pre, post, faults, result, attempted>>
        ELSE Fail(outcome)

(* rows.Next() returns false: the result set is exhausted or the read     *)
(* failed; rows.Err() is not consulted, the loop ends either way.         *)
syncTable_CopyEnd ==
    /\ pc = "copy"
    /\ faults' = IF rows # <<>>
                 THEN [faults EXCEPT ![cur.name] = @ \cup {"copyNext"}]
                 ELSE faults
    /\ rows' = <<>>
    /\ pc' = afterCopy
    /\ UNCHANGED <<aside, query, listFault, src, dst, tx, openTx, cfg, catalog, tables, ti, err,
                   sourceIDs, dst0, pre, post, result, attempted>>

syncTable_QueryIDs ==
    /\ pc = "queryIDs"
    /\ \E ok \in BOOLEAN :
        IF ok
        THEN /\ rows' = RunSelectIDs(readDb, cur)
             /\ sourceIDs' = <<>>
             /\ pc' = "scanIDs"
             /\ UNCHANGED <<aside, query, listFault, src, dst, tx, openTx, cfg, catalog, tables, ti, err,
                            dst0, pre, post, faults, result, attempted>>
        ELSE Fail("queryIDs")

(* for srcRows.Next() { srcRows.Scan(&id); append }, lines 191-197 *)
syncTable_ScanID ==
    /\ pc = "scanIDs"
    /\ rows # <<>>
    /\ \E ok \in BOOLEAN :
        IF ok
        THEN /\ sourceIDs' = Append(sourceIDs, Head(rows))
             /\ rows' = Tail(rows)
             /\ UNCHANGED <<aside, query, listFault, src, dst, tx, openTx, cfg, catalog, tables, ti, pc, err,
                            dst0, pre, post, faults, result, attempted>>
        ELSE Fail("scanID")

syncTable_ScanIDsEnd ==
    /\ pc = "scanIDs"
    /\ faults' = IF rows # <<>>
                 THEN [faults EXCEPT ![cur.name] = @ \cup {"idsNext"}]
                 ELSE faults
    /\ rows' = <<>>
    /\ pc' = "delete"
    /\ UNCHANGED <<aside, query, listFault, src, dst, tx, openTx, cfg, catalog, tables, ti, err,
                   sourceIDs, dst0, pre, post, result, attempted>>

(* if len(sourceIDs) > 0 { DELETE ... NOT IN (...) }, lines 200-209 *)
syncTable_DeleteOrphans ==
    /\ pc = "delete"
    /\ IF hasSourceIDs(sourceIDs)
       THEN \E ok \in BOOLEAN :
            IF ok
            THEN /\ tx' = IF handles.write = "tx"
                           THEN ExecDeleteNotIn(tx, cur, sourceIDs)
                           ELSE tx
                 /\ src' = IF handles.write = "tx"
                            THEN src
                            ELSE ExecDeleteNotIn(src, cur, sourceIDs)
                 /\ pc' = "commit"
                 /\ UNCHANGED <<aside, query, listFault, dst, openTx, cfg, catalog, tables, ti, err,
                                rows, sourceIDs, dst0, pre, post, faults, result,
                                attempted>>
            ELSE Fail("delete")
       ELSE Step("commit")

syncTable_Commit ==
    /\ pc = "commit"
    /\ \E ok \in BOOLEAN :
        IF ok
        THEN LET nxt == loopAfter("nil", ti) IN
             /\ dst' = Commit(dst, tx)
             /\ tx' = dst'
             /\ openTx' = closeTx(openTx, cur.name)
             /\ result' = [result EXCEPT ![cur.name] = "committed"]
             /\ post' = [post EXCEPT ![cur.name] = dst'[cur.name]]
             /\ rows' = <<>>
             /\ sourceIDs' = <<>>
             /\ pc' = nxt.pc
             /\ ti' = nxt.ti
             /\ err' = nxt.err
             /\ UNCHANGED <<aside, query, listFault, src, cfg, catalog, tables, dst0, pre, faults, attempted>>
        ELSE Fail("commit")

Next ==
    \/ Sync_getTables
    \/ Sync_return
    \/ syncTable_Begin
    \/ syncTable_PrepareInsert
    \/ syncTable_PrepareDelete
    \/ syncTable_Select
    \/ syncTable_CopyRow
    \/ syncTable_CopyEnd
    \/ syncTable_QueryIDs
    \/ syncTable_ScanID
    \/ syncTable_ScanIDsEnd
    \/ syncTable_DeleteOrphans
    \/ syncTable_Commit

Spec == Init /\ [][Next]_vars

SpecMulti == InitMulti /\ [][Next]_vars

SpecTarget == InitTarget /\ [][Next]_vars

(* ------------- schema inspection and query building alone ------------ *)
(* The rows of PRAGMA table_info for a table of 1..MaxCols columns: pk is *)
(* 0 for a column outside the primary key, else its 1-based position in   *)
(* the key.                                                               *)
ColNames == <<"id", "v", "w", "x", "y">>

ValidPk(p) ==
    LET flagged == {i \in DOMAIN p : p[i] > 0}
    IN /\ \A i \in flagged : p[i] <= Cardinality(flagged)
       /\ \A i, j \in flagged : p[i] = p[j] => i = j

(* The names of n columns: distinct strings, and SQLite accepts the empty *)
(* string as the name of a column (CREATE TABLE t ("" TEXT PRIMARY KEY)). *)
Names(n) ==
    {[i \in 1..n |-> ColNames[i]]} \cup
    {[i \in 1..n |-> IF i = j THEN "" ELSE ColNames[i]] : j \in 1..n}

PragmaRows ==
    UNION {{[i \in 1..n |-> [name |-> nm[i], pk |-> p[i]]] :
                p \in {f \in [1..n -> 0..n] : ValidPk(f)}, nm \in Names(n)} :
           n \in 1..MaxCols}

InitInfo ==
    /\ catalog = <<"t1">>
    /\ src = [t \in {"t1"} |-> [k \in 1..MaxKey |-> NoRow]]
    /\ dst = src
    /\ cfg \in Config
    /\ tx = dst
    /\ openTx = {}
    /\ query = NoQuery
    /\ pragma \in PragmaRows
    /\ info = NoTable
    /\ src0 = src
    /\ listFault = FALSE
    /\ first = [done |-> FALSE, err |-> "none", clean |-> TRUE, dst |-> dst]
    /\ tables = <<>>
    /\ ti = 1
    /\ pc = "inspect"
    /\ err = "none"
    /\ rows = <<>>
    /\ sourceIDs = <<>>
    /\ dst0 = dst
    /\ pre = dst
    /\ post = dst
    /\ faults = [t \in DOMAIN dst |-> {}]
    /\ result = [t \in DOMAIN dst |-> "none"]
    /\ attempted = {}

getTableInfo_call ==
    /\ pc = "inspect"
    /\ info' = tableInfo(catalog[1], pragma)
    /\ pc' = "build"
    /\ UNCHANGED <<src, dst, tx, openTx, cfg, catalog, tables, ti, err, rows,
                   sourceIDs, query, pragma, src0, dst0, pre, post, faults,
                   listFault, result, attempted, first>>

buildSelectQuery_call ==
    /\ pc = "build"
    /\ query' = selectCall(info, cfg)
    /\ pc' = "built"
    /\ UNCHANGED <<src, dst, tx, openTx, cfg, catalog, tables, ti, err, rows,
                   sourceIDs, pragma, info, src0, dst0, pre, post, faults,
                   listFault, result, attempted, first>>

NextInfo == getTableInfo_call \/ buildSelectQuery_call

SpecInfo == InitInfo /\ [][NextInfo]_vars

(* A second invocation of Sync with the same configuration, once the      *)
(* first has returned: the outcome of the first run is kept in first.     *)
Sync_again ==
    /\ pc = "done"
    /\ ~first.done
    /\ first' = [done |-> TRUE, err |-> err,
                 clean |-> ~listFault /\ \A t \in DOMAIN dst : faults[t] = {},
                 dst |-> dst]
    /\ pc' = "start"
    /\ err' = "none"
    /\ tables' = <<>>
    /\ ti' = 1
    /\ rows' = <<>>
    /\ sourceIDs' = <<>>
    /\ query' = NoQuery
    /\ dst0' = dst
    /\ pre' = dst
    /\ post' = dst
    /\ faults' = [t \in DOMAIN dst |-> {}]
    /\ listFault' = FALSE
    /\ result' = [t \in DOMAIN dst |-> "none"]
    /\ attempted' = {}
    /\ UNCHANGED <<src, dst, tx, openTx, cfg, catalog, pragma, info, src0>>

NextTwice == Next \/ Sync_again

SpecTwice == Init /\ [][NextTwice]_vars

(* ===================== properties of the claims ======================= *)
synced == {tables[i].name : i \in 1..Len(tables)}

FilterSet(c) == c.Filter \in {"gt", "lt", "gte", "lte"} /\ c.Value # ""

InScope(c, k) == IF FilterSet(c) THEN Compare(filterOp(c.Filter), k, c.Value) ELSE TRUE

SyncOk == pc = "done" /\ err = "nil"

NoFault == \A t \in DOMAIN dst : faults[t] = {}

(* C1: after a successful Sync with NoDelete=false, the keys of every     *)
(* synced target table are a subset of the keys of the source table.      *)
(* Stated for the runs in which no database call failed: the claim does   *)
(* not hold even there.                                                   *)
C1_TargetKeysSubset ==
    (SyncOk /\ NoFault /\ ~cfg.NoDelete) =>
        \A t \in synced : KeysOf(dst[t]) \subseteq KeysOf(src[t])

(* C2: a synced source table with zero rows and NoDelete=false leaves the *)
(* target table with zero rows after a successful Sync.                   *)
C2_EmptySourceEmptiesTarget ==
    (SyncOk /\ ~cfg.NoDelete) =>
        \A t \in synced : KeysOf(src[t]) = {} => KeysOf(dst[t]) = {}

(* C3: after a successful Sync every source row in filter scope is in the *)
(* target with the same key and the same column values.                   *)
C3_ScopedRowsCopied ==
    SyncOk =>
        \A t \in synced : \A k \in KeysOf(src[t]) :
            InScope(cfg, k) => dst[t][k] = src[t][k]

(* C4: with NoDelete=true every target row that existed before Sync and   *)
(* whose key is absent from the source is still there, unmodified.        *)
C4_NoDeletePreserves ==
    cfg.NoDelete =>
        \A t \in DOMAIN dst : \A k \in KeysOf(dst0[t]) :
            src[t][k] = NoRow => (dst[t][k] = dst0[t][k] /\ tx[t][k] = dst0[t][k])

C4_Witness ==
    /\ SyncOk
    /\ cfg.NoDelete
    /\ \E t \in synced : \E k \in KeysOf(dst0[t]) : \E j \in KeysOf(src[t]) :
        /\ src[t][k] = NoRow
        /\ dst[t][j] = src[t][j]
        /\ dst0[t][j] # src[t][j]

(* C5: with a filter set, a target row whose key is outside the filter    *)
(* and still exists in the source keeps its pre-sync values after Sync.   *)
C5_OutOfScopeRowsKept ==
    (pc = "done" /\ FilterSet(cfg)) =>
        \A t \in DOMAIN dst : \A k \in KeysOf(dst0[t]) :
            (src[t][k] # NoRow /\ ~InScope(cfg, k)) => dst[t][k] = dst0[t][k]

(* C6: if any step of a table's synchronisation failed, the committed     *)
(* content of that target table is what it was before the table's sync.   *)
C6_FailureLeavesTable ==
    \A t \in DOMAIN dst :
        (faults[t] # {} /\ result[t] \in {"committed", "error"}) => dst[t] = pre[t]

(* C7: syncTable commits only when every step succeeded; a table whose    *)
(* source read was cut short by an error is never committed.              *)
C7_CommitOnlyWithoutFailure ==
    \A t \in DOMAIN dst : result[t] = "committed" => faults[t] = {}

(* C8: when the sync of Tk returns an error, Sync returns the error at    *)
(* once; Tk+1..Tn are never attempted, no transaction is opened for them  *)
(* and their target content is unchanged.                                 *)
C8_AbortOnFirstFailure ==
    \A i \in 1..Len(tables) :
        result[tables[i].name] = "error" =>
            /\ pc = "done"
            /\ err = "error"
            /\ ~txOpen
            /\ \A j \in (i + 1)..Len(tables) :
                /\ tables[j].name \notin attempted
                /\ result[tables[j].name] = "none"
                /\ dst[tables[j].name] = dst0[tables[j].name]

C8_Witness ==
    /\ pc = "done"
    /\ Len(tables) = 2
    /\ result[tables[1].name] = "error"
    /\ src[tables[2].name] # dst0[tables[2].name]
    /\ KeysOf(src[tables[2].name]) # {}

(* C9: a table committed earlier in the run keeps its synchronised        *)
(* content when a later table fails and is rolled back.                   *)
C9_EarlierCommitsKept ==
    \A t \in DOMAIN dst : result[t] = "committed" => dst[t] = post[t]

C9_Witness ==
    /\ pc = "done"
    /\ err = "error"
    /\ Len(tables) = 2
    /\ result[tables[1].name] = "committed"
    /\ result[tables[2].name] = "error"
    /\ post[tables[1].name] # dst0[tables[1].name]
    /\ dst[tables[1].name] = src[tables[1].name]
    /\ "commit" \in faults[tables[2].name]

(* C10: with a non-empty allowlist, a target table that is not named in   *)
(* it has the same rows as before Sync, whether Sync succeeds or fails.   *)
C10_AllowlistIsolation ==
    Len(cfg.Tables) > 0 =>
        \A t \in DOMAIN dst :
            t \notin SeqRange(cfg.Tables) => (dst[t] = dst0[t] /\ tx[t] = dst0[t])

C10_Witness ==
    /\ SyncOk
    /\ Len(cfg.Tables) > 0
    /\ \E t \in DOMAIN dst : \E u \in DOMAIN dst :
        /\ t \notin SeqRange(cfg.Tables)
        /\ src[t] # dst0[t]
        /\ KeysOf(src[t]) # {}
        /\ u \in SeqRange(cfg.Tables)
        /\ result[u] = "committed"
        /\ dst[u] # dst0[u]

(* C12: when Filter or Value is empty no filter is applied: the source    *)
(* select has no WHERE clause, it is executed with as many arguments as   *)
(* it has placeholders, and every source row of the table is copied.      *)
Placeholders(q) == IF q.where = "" THEN 0 ELSE 1

RowKeys(rs) == {rs[i][1] : i \in 1..Len(rs)}

C12_NoFilterWhenEitherAbsent ==
    (pc = "copy" /\ (cfg.Filter = "" \/ cfg.Value = "")) =>
        /\ query.where = ""
        /\ Len(query.args) = Placeholders(query)
        /\ \A k \in KeysOf(src[cur.name]) :
            k \in RowKeys(rows) \/ tx[cur.name][k] = src[cur.name][k]

(* C13: an allowlist name that matches no source table is ignored: Sync   *)
(* does not fail because of it and the allowlisted tables that exist are  *)
(* synchronised as usual.                                                 *)
UnknownAllowed == SeqRange(cfg.Tables) \ SeqRange(catalog) # {}

C13_UnknownAllowlistNameIgnored ==
    UnknownAllowed =>
        /\ (pc # "start" /\ ~listFault) =>
                synced = SeqRange(catalog) \cap SeqRange(cfg.Tables)
        /\ (pc = "done" /\ err = "error") =>
                (listFault \/ \E t \in DOMAIN dst : faults[t] # {})
        /\ (SyncOk /\ NoFault) =>
                \A t \in SeqRange(catalog) \cap SeqRange(cfg.Tables) :
                    /\ result[t] = "committed"
                    /\ \A k \in KeysOf(src[t]) : InScope(cfg, k) => dst[t][k] = src[t][k]

C13_Witness ==
    /\ SyncOk
    /\ NoFault
    /\ UnknownAllowed
    /\ \E t \in SeqRange(catalog) \cap SeqRange(cfg.Tables) :
        /\ result[t] = "committed"
        /\ dst[t] # dst0[t]
        /\ dst[t] = src[t]

(* C11: a second Sync with the same configuration and an unchanged       *)
(* source leaves the target as the first Sync left it.                    *)
C11_SecondRunChangesNothing ==
    (first.done /\ first.err = "nil" /\ SyncOk) => dst = first.dst

(* C14: the orphan deletion does not depend on the copy filter: the keys  *)
(* a successful sync deletes from a table are those it deletes with no    *)
(* filter, so a target row outside the filter scope and absent from the   *)
(* source is deleted.  Stated for the runs in which no database call      *)
(* failed.                                                                *)
Deleted(t) == KeysOf(dst0[t]) \ KeysOf(dst[t])

DeletedUnfiltered(s, d) == IF KeysOf(s) = {} THEN {} ELSE KeysOf(d) \ KeysOf(s)

C14_DeletionIgnoresFilter ==
    (SyncOk /\ NoFault /\ ~cfg.NoDelete) =>
        \A t \in synced :
            /\ Deleted(t) = DeletedUnfiltered(src[t], dst0[t])
            /\ \A k \in KeysOf(dst0[t]) :
                (~InScope(cfg, k) /\ src[t][k] = NoRow) => dst[t][k] = NoRow

(* C15: the committed target never shows a table with some of its upserts *)
(* but not the rest, or with its upserts but not its orphan deletions.    *)
C15_AllOrNothingVisible ==
    \A t \in DOMAIN dst :
        dst[t] # pre[t] =>
            /\ \A k \in KeysOf(src[t]) : InScope(cfg, k) => dst[t][k] = src[t][k]
            /\ ~cfg.NoDelete => KeysOf(dst[t]) \subseteq KeysOf(src[t])

Named(p) == \A i \in DOMAIN p : p[i].name # ""

Flagged(p) == {i \in DOMAIN p : p[i].pk > 0}

FirstFlagged(p) == CHOOSE i \in Flagged(p) : \A j \in Flagged(p) : i <= j

C17_FirstFlaggedColumnIsKey ==
    (pc \in {"build", "built"} /\ Named(pragma) /\ Cardinality(Flagged(pragma)) > 1) =>
        info.pkCol = pragma[FirstFlagged(pragma)].name

(* C18: the column list of the select is the key column followed by the  *)
(* non-key columns in schema order: the key column appears once and,      *)
(* when the key is a declared column, the list is as long as the table    *)
(* has columns.                                                           *)
NonKeyColumns(p, key) == SelectSeq([i \in DOMAIN p |-> p[i].name], LAMBDA c : c # key)

C18_KeyFirstThenOthers ==
    (pc = "built" /\ Named(pragma)) =>
        /\ query.cols = <<info.pkCol>> \o NonKeyColumns(pragma, info.pkCol)
        /\ Cardinality({i \in DOMAIN query.cols : query.cols[i] = info.pkCol}) = 1
        /\ Flagged(pragma) # {} => Len(query.cols) = Len(pragma)

(* C19: at most one transaction is open on the target, uncommitted       *)
(* writes exist only inside the transaction of the table being            *)
(* synchronised, and that transaction is over before the next begins.     *)
C19_OneTransactionAtATime ==
    /\ Cardinality(openTx) <= 1
    /\ openTx # {} => (ti <= Len(tables) /\ openTx = {cur.name})
    /\ \A t \in DOMAIN dst : tx[t] # dst[t] => openTx = {t}
    /\ pc \in {"start", "loop", "done"} => openTx = {}

C19_Witness ==
    /\ Len(tables) = 2
    /\ ti = 2
    /\ result[tables[1].name] = "committed"
    /\ openTx = {tables[2].name}
    /\ tx[tables[2].name] # dst[tables[2].name]

(* C20: Sync never modifies the source: every source table has the rows   *)
(* it had before the run, whether the run succeeds or fails.              *)
C20_SourceUnchanged == src = src0

C20_Witness ==
    /\ pc = "done"
    /\ \E t \in synced :
        /\ \E k \in KeysOf(src[t]) : dst[t][k] = src[t][k] /\ dst0[t][k] # src[t][k]
        /\ Deleted(t) # {}

(* C21: every table descriptor that getTableInfo produces has a non-empty *)
(* pkCol: the name of a column flagged as primary key when the table has  *)
(* one, and "rowid" when no column is flagged.                            *)
C21_KeyColumnNeverEmpty ==
    pc \in {"build", "built"} =>
        /\ info.pkCol # ""
        /\ Flagged(pragma) # {} =>
                \E i \in Flagged(pragma) : info.pkCol = pragma[i].name
        /\ Flagged(pragma) = {} => info.pkCol = "rowid"

(* C22: after a successful Sync of a table whose source has at least one  *)
(* row the target table is exactly: the source rows in filter scope, plus *)
(* with delete enabled the pre-sync target rows whose key is a source key *)
(* outside the filter scope, and with delete suppressed every pre-sync    *)
(* target row whose key is not the key of a source row in filter scope.   *)
ExpectedTarget(t) ==
    [k \in DOMAIN src[t] |->
        IF src[t][k] # NoRow /\ InScope(cfg, k) THEN src[t][k]
        ELSE IF cfg.NoDelete \/ src[t][k] # NoRow THEN dst0[t][k]
        ELSE NoRow]

C22_ExactTargetAfterSync ==
    SyncOk =>
        \A t \in synced : KeysOf(src[t]) # {} => dst[t] = ExpectedTarget(t)

(* C23: Sync operates on tables of the source catalog only: a table that  *)
(* exists in the target but not in the source is never selected, no       *)
(* statement and no transaction ever names it, and its content stays what *)
(* it was, whatever the allowlist and NoDelete are.                       *)
TargetOnly == DOMAIN dst \ SeqRange(catalog)

C23_TargetOnlyTablesUntouched ==
    \A t \in TargetOnly :
        /\ t \notin synced
        /\ t \notin attempted
        /\ t \notin openTx
        /\ result[t] = "none"
        /\ tx[t] = dst0[t]
        /\ dst[t] = dst0[t]

C23_Witness ==
    /\ SyncOk
    /\ ~cfg.NoDelete
    /\ \E t \in TargetOnly : t \in SeqRange(cfg.Tables) /\ KeysOf(dst0[t]) # {}
    /\ \E t \in synced : dst[t] # dst0[t]

====
